---- MODULE Spec2Model ----
(***************************************************************************)
(* Wearable clinical data platform.                                        *)
(*   task1/src/ingestion/main.py   normalisation of the nested document,   *)
(*                                 chunked upsert, provenance log          *)
(*   task2/src/api/query_optimizer.py   table selection, query building    *)
(*   task2/src/api/main.py              the /api/v1/metrics endpoint       *)
(* Instants are whole seconds; numeric values are the integers the raw     *)
(* strings of the document parse to.                                       *)
(***************************************************************************)
EXTENDS Integers, Sequences, FiniteSets, Bags, TLC

VARIABLES
    \* ---- ingestion (task1) ----
    raw_data,          \* the raw_data table: a bag of rows
    ingestion_log,     \* the ingestion_log table: a sequence of provenance rows
    connection,        \* DatabaseManager.connection of the pipeline
    pc,                \* position of run_structured_data_ingestion
    structured_data,   \* the document loaded by the current run
    processed_data,    \* the records normalised by the current run
    i,                 \* offset of the next batch in processed_data
    total_records,
    total_errors,
    ret,               \* the value the run is about to return
    result,            \* what the last finished run returned
    runs,              \* number of finished runs
    \* ---- history of the current run (read by the properties only) ----
    connect_ok,        \* what connect() returned
    loaded,            \* the document was read and parsed
    batch_results,     \* outcome of every batch attempted so far, in order
    log_calls,         \* calls of log_ingestion made by this run
    log_written,       \* provenance rows written by this run
    raw_at_start,      \* raw_data when the run started
    prev_run,          \* the run before this one: its document, what became of it
    \* ---- normalisation taken alone ----
    document,
    normalized,
    norm_done,
    \* ---- query API (task2) ----
    api_connection,    \* db_manager.connection of the API process
    request,           \* the parameters of the last /api/v1/metrics request
    response,          \* what that request ended in
    queries_sent,      \* statements the last request handed to the cursor
    unavailable,       \* the last request found storage unavailable (history)
    opt_args,          \* arguments of the last get_optimal_table call
    table_name,        \* what it returned
    build_args,        \* arguments of the last build_optimized_query call
    built              \* what it returned

ing_vars_but_table ==
    <<ingestion_log, connection, pc, structured_data, processed_data, i,
      total_records, total_errors, ret, result, runs, connect_ok, loaded,
      batch_results, log_calls, log_written, raw_at_start,
                   prev_run>>
ing_vars == <<raw_data, ing_vars_but_table>>
norm_vars == <<document, normalized, norm_done>>
api_vars == <<api_connection, request, response, queries_sent, unavailable,
              opt_args, table_name, build_args, built>>
vars == <<ing_vars, norm_vars, api_vars>>

-----------------------------------------------------------------------------
(* Bounds of the model *)

\* longest list of entries in one section of a document
MaxEntries == 2
\* most sections present in one document
MaxSections == 2
\* ingestion runs per behaviour
MaxRuns == 2
\* rows per batch: batch_size of run_structured_data_ingestion, 1000 in the
\* source, scaled down so that a small document spans several batches
batch_size == 2
\* how far, in seconds, the sampled time spans lie around each threshold
Jitter == 1

-----------------------------------------------------------------------------
(* The input document *)

Modalities == <<"heart_rate", "breathing_rate", "active_zone_minutes",
                "heart_rate_variability", "spo2">>
ModalitySet == {Modalities[k] : k \in 1..Len(Modalities)}

\* A section is absent, is something other than the expected mapping-with-list
\* (malformed), or carries its list of entries.
Absent == [kind |-> "absent", entries |-> <<>>]
Malformed == [kind |-> "malformed", entries |-> <<>>]
List(es) == [kind |-> "list", entries |-> es]

\* float(): the strings it accepts and the numbers it gives; any other string
\* raises ValueError.
NumericValue ==
    ("72" :> 72) @@ (" 80 " :> 80) @@ ("80" :> 80) @@ ("14" :> 14) @@ ("15" :> 15)
    @@ ("16" :> 16) @@ ("17" :> 17) @@ ("5" :> 5) @@ ("30" :> 30) @@ ("42" :> 42)
    @@ ("97" :> 97)
CanFloat(s) == s \in DOMAIN NumericValue
Float(s) == NumericValue[s]

Has(record, key) == key \in DOMAIN record

br_types == <<"deep_sleep_br", "rem_sleep_br", "light_sleep_br", "full_sleep_br">>
azm_types == <<"fat_burn_minutes", "cardio_minutes", "peak_minutes", "total_minutes">>
hrv_types == <<"rmssd", "lf", "hf">>

-----------------------------------------------------------------------------
(* process_structured_data *)

\* One attempt to build and append a record: either the record, or the
\* exception raised while building it.
Raise == [raised |-> TRUE, rec |-> <<>>]
Emit(r) == [raised |-> FALSE, rec |-> r]

\* the tag without the platform's prefix
Metadata_short_tag(resolution, priority) ==
    [resolution |-> resolution, priority |-> priority,
     source |-> "clinical_trial"]

Metadata(resolution, priority) ==
    [resolution |-> resolution, priority |-> priority,
     source |-> "wearipedia_clinical_trial"]

HeartRateCandidate(record) ==
    IF /\ Has(record, "timestamp") /\ Has(record, "participant_id")
       /\ Has(record, "metric_type") /\ Has(record, "value")
       /\ CanFloat(record["value"])
    THEN Emit([timestamp |-> record["timestamp"],
               user_id |-> record["participant_id"],
               metric_type |-> record["metric_type"],
               value |-> Float(record["value"]),
               metadata |-> Metadata(
                   IF Has(record, "resolution") THEN record["resolution"] ELSE "1_second",
                   IF Has(record, "priority") THEN record["priority"] ELSE "high")])
    ELSE Raise

\* The record of one sub-field of an entry of a multi-field modality.
SubfieldCandidate(record, time_key, suffix, prefix, field, resolution) ==
    IF /\ Has(record, time_key) /\ Has(record, "participant_id")
       /\ CanFloat(record[field])
    THEN Emit([timestamp |-> record[time_key] \o suffix,
               user_id |-> record["participant_id"],
               metric_type |-> prefix \o field,
               value |-> Float(record[field]),
               metadata |-> Metadata(resolution, "medium")])
    ELSE Raise

RECURSIVE SubfieldCandidates(_, _, _, _, _, _)
SubfieldCandidates(record, types, time_key, suffix, prefix, resolution) ==
    IF types = <<>> THEN <<>>
    ELSE (IF Has(record, Head(types))
          THEN <<SubfieldCandidate(record, time_key, suffix, prefix, Head(types), resolution)>>
          ELSE <<>>)
         \o SubfieldCandidates(record, Tail(types), time_key, suffix, prefix, resolution)

Spo2Candidate(record) ==
    IF /\ Has(record, "timestamp") /\ Has(record, "participant_id")
       /\ Has(record, "spo2_value") /\ CanFloat(record["spo2_value"])
    THEN Emit([timestamp |-> record["timestamp"],
               user_id |-> record["participant_id"],
               metric_type |-> "spo2",
               value |-> Float(record["spo2_value"]),
               metadata |-> Metadata("per_minute_during_sleep", "medium")])
    ELSE Raise

EntryCandidates(modality, record) ==
    CASE modality = "heart_rate" -> <<HeartRateCandidate(record)>>
      [] modality = "breathing_rate" ->
            SubfieldCandidates(record, br_types, "date", " 00:00:00",
                               "breathing_rate_", "per_sleep")
      [] modality = "active_zone_minutes" ->
            SubfieldCandidates(record, azm_types, "timestamp", "",
                               "active_zone_", "per_minute")
      [] modality = "heart_rate_variability" ->
            SubfieldCandidates(record, hrv_types, "timestamp", "",
                               "hrv_", "5_min_during_sleep")
      [] modality = "spo2" -> <<Spo2Candidate(record)>>

RECURSIVE EntriesCandidates(_, _)
EntriesCandidates(modality, entries) ==
    IF entries = <<>> THEN <<>>
    ELSE EntryCandidates(modality, Head(entries))
         \o EntriesCandidates(modality, Tail(entries))

\* structured_data.get(m, {}).get(list_key, []) and the loop over it: a
\* malformed section raises before any of its entries is looked at.
SectionCandidates(doc, modality) ==
    CASE doc[modality].kind = "absent" -> <<>>
      [] doc[modality].kind = "malformed" -> <<Raise>>
      [] OTHER -> EntriesCandidates(modality, doc[modality].entries)

RECURSIVE DocumentCandidates(_, _)
DocumentCandidates(doc, k) ==
    IF k > Len(Modalities) THEN <<>>
    ELSE SectionCandidates(doc, Modalities[k]) \o DocumentCandidates(doc, k + 1)

\* The one try/except around all five loops: the first exception ends the
\* processing, and what was appended before it is returned.
RECURSIVE UntilFirstException(_)
UntilFirstException(cands) ==
    IF cands = <<>> \/ Head(cands).raised THEN <<>>
    ELSE <<Head(cands).rec>> \o UntilFirstException(Tail(cands))

process_structured_data(doc) ==
    UntilFirstException(DocumentCandidates(doc, 1))

-----------------------------------------------------------------------------
(* Documents the model feeds to the normaliser *)

SampleEntries ==
    [heart_rate |->
        {[timestamp |-> "2024-01-01 08:00:00", participant_id |-> "U1",
          metric_type |-> "heart_rate", value |-> "72"],
         [timestamp |-> "2024-01-01 08:00:01", participant_id |-> "U1",
          metric_type |-> "heart_rate", value |-> " 80 ",
          resolution |-> "1_minute", priority |-> "low"],
         [timestamp |-> "2024-01-01 08:00:02", participant_id |-> "U1",
          metric_type |-> "heart_rate", value |-> "abc"]},
     breathing_rate |->
        {[date |-> "2024-01-01", participant_id |-> "U1",
          deep_sleep_br |-> "14", full_sleep_br |-> "15"],
         [participant_id |-> "U1", rem_sleep_br |-> "16"]},
     active_zone_minutes |->
        {[timestamp |-> "2024-01-01 09:00:00", participant_id |-> "U1",
          fat_burn_minutes |-> "5", total_minutes |-> "30"],
         [timestamp |-> "2024-01-01 09:01:00", participant_id |-> "U1",
          fat_burn_minutes |-> "5", cardio_minutes |-> "n/a", total_minutes |-> "30"]},
     heart_rate_variability |->
        {[timestamp |-> "2024-01-01 02:00:00", participant_id |-> "U1",
          rmssd |-> "42", lf |-> "17", hf |-> "16"],
         [timestamp |-> "2024-01-01 02:05:00", rmssd |-> "42"]},
     spo2 |->
        {[timestamp |-> "2024-01-01 03:00:00", participant_id |-> "U1",
          spo2_value |-> "97"],
         [timestamp |-> "2024-01-01 03:01:00", participant_id |-> "U1"]}]

RECURSIVE SeqsUpTo(_, _)
SeqsUpTo(S, n) ==
    IF n = 0 THEN {<<>>}
    ELSE LET shorter == SeqsUpTo(S, n - 1)
         IN  shorter \cup {Append(s, e) : s \in {t \in shorter : Len(t) = n - 1}, e \in S}

SectionOptions(modality) ==
    {Malformed} \cup {List(es) : es \in SeqsUpTo(SampleEntries[modality], MaxEntries)}

\* participant_info: absent, not a mapping, or a mapping naming the participant
\* (the provenance row's user when present).
NoParticipant == [kind |-> "absent", participant_id |-> ""]
BadParticipant == [kind |-> "malformed", participant_id |-> ""]
Participant(p) == [kind |-> "present", participant_id |-> p]

NoSections ==
    [heart_rate |-> Absent, breathing_rate |-> Absent,
     active_zone_minutes |-> Absent, heart_rate_variability |-> Absent,
     spo2 |-> Absent, participant_info |-> NoParticipant]

\* The sets of sections a document may carry, and the documents carrying
\* exactly the sections of one such set.
PresentSets == {P \in SUBSET ModalitySet : Cardinality(P) <= MaxSections}
SectionIn(modality, present) ==
    IF modality \in present THEN SectionOptions(modality) ELSE {Absent}
DocsWith(present) ==
    [heart_rate : SectionIn("heart_rate", present),
     breathing_rate : SectionIn("breathing_rate", present),
     active_zone_minutes : SectionIn("active_zone_minutes", present),
     heart_rate_variability : SectionIn("heart_rate_variability", present),
     spo2 : SectionIn("spo2", present),
     participant_info : {NoParticipant}]

-----------------------------------------------------------------------------
(* QueryOptimizer (task2/src/api/query_optimizer.py) *)

\* timedelta(days=d, hours=h), in seconds
timedelta(days, hours) == days * 86400 + hours * 3600
\* get_optimal_table with `>=` at every threshold
get_optimal_table_inclusive(start_date, end_date) ==
    LET time_diff == end_date - start_date
    IN  IF time_diff >= timedelta(7, 0) THEN "data_1d"
        ELSE IF time_diff >= timedelta(0, 6) THEN "data_1h"
        ELSE IF time_diff >= timedelta(0, 1) THEN "data_1m"
        ELSE "raw_data"

get_optimal_table(start_date, end_date) ==
    LET time_diff == end_date - start_date
    IN  IF time_diff > timedelta(7, 0) THEN "data_1d"
        ELSE IF time_diff > timedelta(0, 6) THEN "data_1h"
        ELSE IF time_diff > timedelta(0, 1) THEN "data_1m"
        ELSE "raw_data"

\* The text of the raw query: what it selects, from where, and the column it
\* filters and orders by.
RawQuery ==
    [select_timestamp |-> "timestamp", select_value |-> "value",
     select_metadata |-> <<"metadata">>,
     from |-> "raw_data", time_column |-> "timestamp", order |-> "ASC"]

\* The text of the aggregated query; metadata is
\* json_build_object('min', min_value, 'max', max_value, 'count', count).
AggregatedQuery(table) ==
    [select_timestamp |-> "bucket", select_value |-> "avg_value",
     select_metadata |-> <<"json_build_object", "min", "min_value", "max",
                           "max_value", "count", "count">>,
     from |-> table, time_column |-> "bucket", order |-> "ASC"]
\* build_optimized_query whose aggregated branch selects the raw columns
build_optimized_query_raw_columns(start_date, end_date, user_id, metric_type, limit) ==
    LET table == get_optimal_table(start_date, end_date)
    IN  [query |-> [RawQuery EXCEPT !.from = table],
         params |-> <<user_id, metric_type, start_date, end_date, limit>>,
         table_name |-> table]

build_optimized_query(start_date, end_date, user_id, metric_type, limit) ==
    LET table == get_optimal_table(start_date, end_date)
    IN  [query |-> IF table = "raw_data" THEN RawQuery ELSE AggregatedQuery(table),
         params |-> <<user_id, metric_type, start_date, end_date, limit>>,
         table_name |-> table]

-----------------------------------------------------------------------------
(* The API process (task2/src/api/main.py) *)

\* datetime.strptime(s, "%Y-%m-%d"): midnight of the day, in seconds since
\* 2024-01-01 00:00:00; any other string raises ValueError.
StrpTime ==
    ("2024-01-01" :> 0) @@ ("2024-01-02" :> 86400) @@ ("2024-01-09" :> 8 * 86400)
CanStrpTime(s) == s \in DOMAIN StrpTime

\* The rows the SELECT of get_metrics matches, oldest first, at most `limit`.
Matching(table, user_id, metric_type, start_dt, end_dt) ==
    {r \in BagToSet(table) :
        /\ r.user_id = user_id /\ r.metric_type = metric_type
        /\ r.timestamp >= start_dt /\ r.timestamp <= end_dt}

RECURSIVE OrderedLimited(_, _)
OrderedLimited(rows, limit) ==
    IF rows = {} \/ limit = 0 THEN <<>>
    ELSE LET first == CHOOSE r \in rows : \A q \in rows : r.timestamp <= q.timestamp
         IN  <<first>> \o OrderedLimited(rows \ {first}, limit - 1)

\* MetricData(timestamp, float(value), metadata) for every row
MetricData(rows) ==
    [k \in 1..Len(rows) |->
        [timestamp |-> rows[k].timestamp, value |-> rows[k].value,
         metadata |-> rows[k].metadata]]

\* What the try block of get_metrics ends in: a response, or an exception.
Returned(req, data) ==
    [kind |-> "return", status |-> 200, detail |-> "",
     user_id |-> req.user_id, metric_type |-> req.metric_type,
     start_date |-> req.start_date, end_date |-> req.end_date,
     data |-> data, total_records |-> Len(data)]
Raised(type, status, detail) ==
    [kind |-> "raise", type |-> type, status |-> status, detail |-> detail]

HttpError(req, status, detail) ==
    [kind |-> "error", status |-> status, detail |-> detail,
     user_id |-> req.user_id, metric_type |-> req.metric_type,
     start_date |-> req.start_date, end_date |-> req.end_date,
     data |-> <<>>, total_records |-> 0]

\* The two except clauses of get_metrics, in order: ValueError, then Exception
\* (HTTPException is an Exception, so the 400 raised in the try block lands in
\* the second clause).
ExceptClauses(req, outcome) ==
    IF outcome.kind = "return" THEN outcome
    ELSE IF outcome.type = "ValueError"
         THEN HttpError(req, 400, "Invalid date format. Use YYYY-MM-DD")
         ELSE HttpError(req, 500, "Internal server error")

\* The try block up to the call of execute_query: the exception raised there,
\* or "query" when the query is to be executed.
BeforeQuery(req) ==
    IF ~CanStrpTime(req.start_date) \/ ~CanStrpTime(req.end_date)
    THEN Raised("ValueError", 0, "")
    ELSE IF StrpTime[req.start_date] >= StrpTime[req.end_date]
         THEN Raised("HTTPException", 400, "start_date must be before end_date")
         ELSE [kind |-> "query"]

\* What sending the statement does on a connection in the given state;
\* `drops` says the server goes away while the statement runs.
\*   none:    execute_query raises "No database connection" before any cursor
\*   broken:  the cursor raises
\*   aborted: an earlier statement failed and nothing rolled it back, so the
\*            transaction refuses every further statement
\*   open:    the statement runs, unless the server drops or LIMIT is negative
ExecuteFails(conn, req, drops) ==
    conn # "open" \/ drops \/ req.limit < 0

ConnectionAfter(conn, req, drops) ==
    IF conn # "open" THEN conn
    ELSE IF drops THEN "broken"
    ELSE IF req.limit < 0 THEN "aborted"
    ELSE "open"

Requests ==
    [user_id : {"U1", "U2"}, metric_type : {"heart_rate"},
     start_date : {"2024-01-01", "2024-01-02", "01/01/2024"},
     end_date : {"2024-01-01", "2024-01-02", "2024-01-09", "soon"},
     limit : {-1, 1, 1000}]

\* get_metrics, from the request to the response
GetMetrics(req, drops) ==
    /\ request' = req
    /\ IF BeforeQuery(req).kind = "raise"
       THEN /\ response' = ExceptClauses(req, BeforeQuery(req))
            /\ queries_sent' = 0
            /\ unavailable' = FALSE
            /\ UNCHANGED api_connection
       ELSE /\ queries_sent' = IF api_connection = "none" THEN 0 ELSE 1
            /\ unavailable' = (api_connection \in {"none", "broken"}
                               \/ (api_connection = "open" /\ drops))
            /\ api_connection' = ConnectionAfter(api_connection, req, drops)
            /\ response' =
                 ExceptClauses(req,
                    IF ExecuteFails(api_connection, req, drops)
                    THEN Raised("Exception", 0, "")
                    ELSE Returned(req, MetricData(OrderedLimited(
                            Matching(raw_data, req.user_id, req.metric_type,
                                     StrpTime[req.start_date], StrpTime[req.end_date]),
                            req.limit))))
    /\ UNCHANGED <<raw_data, opt_args, table_name, build_args, built>>

\* startup_event: connect(); a failed connect leaves connection as it was
ApiStartup(connected) ==
    /\ api_connection = "none"
    /\ api_connection' = IF connected THEN "open" ELSE "none"
    /\ UNCHANGED <<raw_data, request, response, queries_sent, unavailable,
                   opt_args, table_name, build_args, built>>

\* the server side of the connection goes away between requests
ApiConnectionLost ==
    /\ api_connection \in {"open", "aborted"}
    /\ api_connection' = "broken"
    /\ UNCHANGED <<raw_data, request, response, queries_sent, unavailable,
                   opt_args, table_name, build_args, built>>

\* The instants handed to the optimizer: spans around every threshold.
Thresholds == {0, timedelta(0, 1), timedelta(0, 6), timedelta(7, 0)}
Spans == {t + d : t \in Thresholds, d \in (0 - Jitter)..Jitter}
Starts == {0, 1800}

GetOptimalTable(start_date, end_date) ==
    /\ opt_args' = [start_date |-> start_date, end_date |-> end_date, called |-> TRUE]
    /\ table_name' = get_optimal_table(start_date, end_date)
    /\ UNCHANGED <<raw_data, api_connection, request, response, queries_sent,
                   unavailable, build_args, built>>

BuildOptimizedQuery(start_date, end_date, user_id, metric_type, limit) ==
    /\ build_args' = [start_date |-> start_date, end_date |-> end_date,
                      user_id |-> user_id, metric_type |-> metric_type,
                      limit |-> limit, called |-> TRUE]
    /\ built' = build_optimized_query(start_date, end_date, user_id, metric_type, limit)
    /\ UNCHANGED <<raw_data, api_connection, request, response, queries_sent,
                   unavailable, opt_args, table_name>>

NoRequest ==
    [user_id |-> "", metric_type |-> "", start_date |-> "", end_date |-> "", limit |-> 0]

ApiIdle ==
    /\ api_connection = "none"
    /\ request = NoRequest
    /\ response = [kind |-> "none", status |-> 0, detail |-> "",
                   user_id |-> "", metric_type |-> "", start_date |-> "",
                   end_date |-> "", data |-> <<>>, total_records |-> 0]
    /\ queries_sent = 0
    /\ unavailable = FALSE
    /\ opt_args = [start_date |-> 0, end_date |-> 0, called |-> FALSE]
    /\ table_name = ""
    /\ build_args = [start_date |-> 0, end_date |-> 0, user_id |-> "",
                     metric_type |-> "", limit |-> 0, called |-> FALSE]
    /\ built = [query |-> RawQuery, params |-> <<>>, table_name |-> ""]

\* The rows the API finds in raw_data: timestamps as the driver returns them,
\* in seconds since 2024-01-01 00:00:00.
StoredRows ==
    {[timestamp |-> 0, user_id |-> "U1", metric_type |-> "heart_rate",
      value |-> 72, metadata |-> Metadata("1_second", "high")],
     [timestamp |-> 3600, user_id |-> "U1", metric_type |-> "heart_rate",
      value |-> 80, metadata |-> Metadata("1_second", "high")],
     [timestamp |-> 90000, user_id |-> "U1", metric_type |-> "heart_rate",
      value |-> 75, metadata |-> Metadata("1_second", "high")],
     [timestamp |-> 3600, user_id |-> "U1", metric_type |-> "spo2",
      value |-> 97, metadata |-> Metadata("per_minute_during_sleep", "medium")]}

-----------------------------------------------------------------------------
(* DatabaseManager (task1): the raw_data table and the bulk insert *)

\* The columns on which a second write conflicts with a stored row.
ConflictKey(row) == <<row.timestamp, row.user_id, row.metric_type>>

Keys(table) == {ConflictKey(r) : r \in BagToSet(table)}
\* the INSERT without its ON CONFLICT clause, into a table that lets it through
InsertRow_no_conflict_clause(table, row) == table (+) SetToBag({row})

\* INSERT INTO raw_data ... ON CONFLICT DO NOTHING, one row of the VALUES list
InsertRow(table, row) ==
    IF ConflictKey(row) \in Keys(table) THEN table ELSE table (+) SetToBag({row})

\* execute_values over the rows of one batch, in order
RECURSIVE InsertRows(_, _)
InsertRows(table, rows) ==
    IF rows = <<>> THEN table
    ELSE InsertRows(InsertRow(table, Head(rows)), Tail(rows))

\* the tuple insert_raw_data sends for one record
RowOf(record) ==
    [timestamp |-> record.timestamp, user_id |-> record.user_id,
     metric_type |-> record.metric_type, value |-> record.value,
     metadata |-> record.metadata]

RECURSIVE RowsOf(_)
RowsOf(records) ==
    IF records = <<>> THEN <<>> ELSE <<RowOf(Head(records))>> \o RowsOf(Tail(records))

-----------------------------------------------------------------------------
(* FitbitIngestionPipeline.run_structured_data_ingestion *)

Min(a, b) == IF a < b THEN a ELSE b

\* the slice taken one row short: processed_data[i:i + batch_size - 1]
Batch_one_short(records, offset) ==
    SubSeq(records, offset + 1, Min(offset + batch_size, Len(records)) - 1)

\* processed_data[i:i + batch_size]
Batch(records, offset) ==
    SubSeq(records, offset + 1, Min(offset + batch_size, Len(records)))
\* the run going on after a failed connect()
AbortOnConnectFailure_never(connected) == FALSE

\* `if not self.db_manager.connect(): return False`
AbortOnConnectFailure(connected) == ~connected

\* `if processed_data:`
HasRecords(records) == records # <<>>
\* the `else` branch falling through to `return True`
NoRecordsReturn_true == TRUE

\* the return value of the `else` branch of `if processed_data:`
NoRecordsReturn == FALSE
\* the loop leaving after its first batch
MoreBatches_first_only(offset, n) == offset < n /\ offset = 0

\* range(0, len(processed_data), batch_size) has an offset left
MoreBatches(offset, n) == offset < n

\* structured_data.get('participant_info', {}).get('participant_id', default)
ProvenanceUser(doc) ==
    IF doc["participant_info"].kind = "present"
    THEN doc["participant_info"].participant_id
    ELSE "synthetic_user_001"

\* The files a run may be pointed at.
hrA == [timestamp |-> "2024-01-01 08:00:00", participant_id |-> "U1",
        metric_type |-> "heart_rate", value |-> "72"]
hrA2 == [timestamp |-> "2024-01-01 08:00:00", participant_id |-> "U1",
         metric_type |-> "heart_rate", value |-> "80"]
hrBad == [timestamp |-> "2024-01-01 08:00:02", participant_id |-> "U1",
          metric_type |-> "heart_rate", value |-> "abc"]
brFull == [date |-> "2024-01-01", participant_id |-> "U1",
           deep_sleep_br |-> "14", rem_sleep_br |-> "16",
           light_sleep_br |-> "17", full_sleep_br |-> "15"]
spo2A == [timestamp |-> "2024-01-01 03:00:00", participant_id |-> "U1",
          spo2_value |-> "97"]

DataFiles ==
    {NoSections,
     [NoSections EXCEPT !["heart_rate"] = List(<<hrA>>)],
     [NoSections EXCEPT !["heart_rate"] = List(<<hrA2>>),
                        !["participant_info"] = BadParticipant],
     [NoSections EXCEPT !["heart_rate"] = List(<<hrBad, hrA>>)],
     [NoSections EXCEPT !["heart_rate"] = List(<<hrA, hrA2>>),
                        !["breathing_rate"] = List(<<brFull>>),
                        !["participant_info"] = Participant("U1")],
     [NoSections EXCEPT !["breathing_rate"] = List(<<brFull>>),
                        !["spo2"] = List(<<spo2A>>)]}

\* try: connect, load the file, normalise; the first batch is next
RunStart(doc, connected, readable) ==
    /\ pc \in {"idle", "done"}
    /\ runs < MaxRuns
    /\ total_records' = 0
    /\ total_errors' = 0
    /\ i' = 0
    /\ connect_ok' = connected
    /\ connection' = IF connected THEN "open" ELSE connection
    /\ batch_results' = <<>>
    /\ log_calls' = 0
    /\ log_written' = 0
    /\ raw_at_start' = raw_data
    /\ prev_run' = [ran |-> pc = "done", document |-> structured_data,
                    loaded |-> loaded,
                    failed |-> \E k \in 1..Len(batch_results) :
                                  batch_results[k] # "committed"]
    /\ IF AbortOnConnectFailure(connected) \/ ~readable
       THEN /\ loaded' = FALSE
            /\ structured_data' = NoSections
            /\ processed_data' = <<>>
            /\ ret' = FALSE
            /\ pc' = "finally"
       ELSE /\ loaded' = TRUE
            /\ structured_data' = doc
            /\ processed_data' = process_structured_data(doc)
            /\ IF HasRecords(processed_data')
               THEN /\ ret' = ret
                    /\ pc' = IF MoreBatches(0, Len(processed_data')) THEN "batches" ELSE "log"
               ELSE /\ ret' = NoRecordsReturn
                    /\ pc' = "finally"
    /\ UNCHANGED <<raw_data, ingestion_log, result, runs>>

AfterBatch ==
    /\ i' = i + batch_size
    /\ pc' = IF MoreBatches(i', Len(processed_data)) THEN "batches" ELSE "log"

\* the counter overwritten instead of added to: total_records = len(batch)
CountBatch_overwrite(total, batch) == Len(batch)

\* total_records += len(batch)
CountBatch(total, batch) == total + Len(batch)

\* insert_raw_data returns True: the statement ran and the commit went through
InsertBatchCommitted ==
    /\ pc = "batches"
    /\ connection = "open"
    /\ raw_data' = InsertRows(raw_data, RowsOf(Batch(processed_data, i)))
    /\ total_records' = CountBatch(total_records, Batch(processed_data, i))
    /\ batch_results' = Append(batch_results, "committed")
    /\ AfterBatch
    /\ UNCHANGED <<ingestion_log, connection, structured_data, processed_data,
                   total_errors, ret, result, runs, connect_ok, loaded,
                   log_calls, log_written, raw_at_start,
                   prev_run>>

\* insert_raw_data returns False: the statement or the commit raised, and
\* connection.rollback() undid the batch
InsertBatchRolledBack ==
    /\ pc = "batches"
    /\ connection = "open"
    /\ total_errors' = total_errors + 1
    /\ batch_results' = Append(batch_results, "rolled_back")
    /\ AfterBatch
    /\ UNCHANGED <<raw_data, ingestion_log, connection, structured_data,
                   processed_data, total_records, ret, result, runs, connect_ok,
                   loaded, log_calls, log_written, raw_at_start,
                   prev_run>>

\* insert_raw_data raises: the connection is unusable, so the statement raised
\* and connection.rollback() in the handler raised in turn; the exception
\* reaches the `except` of the run, which returns False
InsertBatchRaised ==
    /\ pc = "batches"
    /\ connection' = IF connection = "open" THEN "broken" ELSE connection
    /\ batch_results' = Append(batch_results, "raised")
    /\ ret' = FALSE
    /\ pc' = "finally"
    /\ UNCHANGED <<raw_data, ingestion_log, structured_data, processed_data, i,
                   total_records, total_errors, result, runs, connect_ok, loaded,
                   log_calls, log_written, raw_at_start,
                   prev_run>>

\* the provenance row of log_ingestion (NOW() and the duration are wall-clock
\* readings and are left out)
ProvenanceRow ==
    [user_id |-> ProvenanceUser(structured_data),
     records_processed |-> total_records,
     errors_encountered |-> total_errors]

\* log_ingestion inserted and committed the row; the run will return True
LogIngestionWritten ==
    /\ pc = "log"
    /\ structured_data["participant_info"].kind # "malformed"
    /\ connection = "open"
    /\ ingestion_log' = Append(ingestion_log, ProvenanceRow)
    /\ log_calls' = log_calls + 1
    /\ log_written' = log_written + 1
    /\ ret' = TRUE
    /\ pc' = "finally"
    /\ UNCHANGED <<raw_data, connection, structured_data, processed_data, i,
                   total_records, total_errors, result, runs, connect_ok, loaded,
                   batch_results, raw_at_start,
                   prev_run>>

\* log_ingestion raised inside its own try: logged, and the run returns True
LogIngestionFailed ==
    /\ pc = "log"
    /\ structured_data["participant_info"].kind # "malformed"
    /\ log_calls' = log_calls + 1
    /\ ret' = TRUE
    /\ pc' = "finally"
    /\ UNCHANGED <<raw_data, ingestion_log, connection, structured_data,
                   processed_data, i, total_records, total_errors, result, runs,
                   connect_ok, loaded, batch_results, log_written, raw_at_start,
                   prev_run>>

\* reading the provenance user raised (participant_info is not a mapping):
\* the `except` of the run returns False before log_ingestion is called
ProvenanceUserRaised ==
    /\ pc = "log"
    /\ structured_data["participant_info"].kind = "malformed"
    /\ ret' = FALSE
    /\ pc' = "finally"
    /\ UNCHANGED <<raw_data, ingestion_log, connection, structured_data,
                   processed_data, i, total_records, total_errors, result, runs,
                   connect_ok, loaded, batch_results, log_calls, log_written,
                   raw_at_start,
                   prev_run>>

\* finally: disconnect(); then the pending return
RunFinish ==
    /\ pc = "finally"
    /\ connection' = IF connection \in {"open", "broken"} THEN "closed" ELSE connection
    /\ result' = ret
    /\ runs' = runs + 1
    /\ pc' = "done"
    /\ UNCHANGED <<raw_data, ingestion_log, structured_data, processed_data, i,
                   total_records, total_errors, ret, connect_ok, loaded,
                   batch_results, log_calls, log_written, raw_at_start,
                   prev_run>>

IngestionIdle ==
    /\ ingestion_log = <<>>
    /\ connection = "none"
    /\ pc = "idle"
    /\ structured_data = NoSections
    /\ processed_data = <<>>
    /\ i = 0
    /\ total_records = 0
    /\ total_errors = 0
    /\ ret = FALSE
    /\ result = FALSE
    /\ runs = 0
    /\ connect_ok = FALSE
    /\ loaded = FALSE
    /\ batch_results = <<>>
    /\ log_calls = 0
    /\ log_written = 0
    /\ raw_at_start = EmptyBag
    /\ prev_run = [ran |-> FALSE, document |-> NoSections, loaded |-> FALSE,
                   failed |-> FALSE]

NormIdle ==
    /\ document = NoSections
    /\ normalized = <<>>
    /\ norm_done = FALSE

Init ==
    /\ raw_data = EmptyBag
    /\ IngestionIdle
    /\ NormIdle
    /\ ApiIdle

Next ==
    \/ /\ \E doc \in DataFiles, connected \in BOOLEAN, readable \in BOOLEAN :
            RunStart(doc, connected, readable)
       /\ UNCHANGED <<norm_vars, api_vars>>
    \/ InsertBatchCommitted /\ UNCHANGED <<norm_vars, api_vars>>
    \/ InsertBatchRolledBack /\ UNCHANGED <<norm_vars, api_vars>>
    \/ InsertBatchRaised /\ UNCHANGED <<norm_vars, api_vars>>
    \/ LogIngestionWritten /\ UNCHANGED <<norm_vars, api_vars>>
    \/ LogIngestionFailed /\ UNCHANGED <<norm_vars, api_vars>>
    \/ ProvenanceUserRaised /\ UNCHANGED <<norm_vars, api_vars>>
    \/ RunFinish /\ UNCHANGED <<norm_vars, api_vars>>

Spec == Init /\ [][Next]_vars

-----------------------------------------------------------------------------
(* The query side taken alone: requests to the endpoint, calls of the builder *)

InitQuery ==
    /\ raw_data = SetToBag(StoredRows)
    /\ IngestionIdle
    /\ NormIdle
    /\ ApiIdle

NextQuery ==
    \/ /\ \E req \in Requests, drops \in BOOLEAN : GetMetrics(req, drops)
       /\ UNCHANGED <<ing_vars_but_table, norm_vars>>
    \/ /\ \E connected \in BOOLEAN : ApiStartup(connected)
       /\ UNCHANGED <<ing_vars_but_table, norm_vars>>
    \/ /\ ApiConnectionLost
       /\ UNCHANGED <<ing_vars_but_table, norm_vars>>
    \/ /\ \E s \in Starts, d \in Spans :
            BuildOptimizedQuery(s, s + d, "U1", "heart_rate", 1000)
       /\ UNCHANGED <<ing_vars_but_table, norm_vars>>

SpecQuery == InitQuery /\ [][NextQuery]_vars

-----------------------------------------------------------------------------
(* The optimizer taken alone: calls of its two methods *)

NextOptimizer ==
    \/ /\ \E s \in Starts, d \in Spans : GetOptimalTable(s, s + d)
       /\ UNCHANGED <<ing_vars_but_table, norm_vars>>
    \/ /\ \E s \in Starts, d \in Spans, u \in {"U1", "U2"}, m \in {"heart_rate"},
            l \in {1, 1000} : BuildOptimizedQuery(s, s + d, u, m, l)
       /\ UNCHANGED <<ing_vars_but_table, norm_vars>>

SpecOptimizer == InitQuery /\ [][NextOptimizer]_vars

-----------------------------------------------------------------------------
(* Normalisation taken alone: one call of process_structured_data *)

InitNorm ==
    /\ raw_data = EmptyBag
    /\ IngestionIdle
    /\ ApiIdle
    /\ \E present \in PresentSets : document \in DocsWith(present)
    /\ normalized = <<>>
    /\ norm_done = FALSE

Normalize ==
    /\ ~norm_done
    /\ normalized' = process_structured_data(document)
    /\ norm_done' = TRUE
    /\ UNCHANGED <<document, ing_vars, api_vars>>

NextNorm == Normalize

SpecNorm == InitNorm /\ [][NextNorm]_vars

-----------------------------------------------------------------------------
(* Properties *)

Range(seq) == {seq[k] : k \in 1..Len(seq)}
Last(seq) == seq[Len(seq)]

\* The tier rule as the specification words it, and the physical source each
\* tier is bound to.
SpecifiedTier(span) ==
    CASE span > 7 * 24 * 3600 -> "daily"
      [] span <= 7 * 24 * 3600 /\ span > 6 * 3600 -> "hourly"
      [] span <= 6 * 3600 /\ span > 3600 -> "minute"
      [] span <= 3600 -> "raw"
PhysicalSource ==
    [daily |-> "data_1d", hourly |-> "data_1h", minute |-> "data_1m", raw |-> "raw_data"]

\* C1: get_optimal_table picks the tier from end - start with strict
\* greater-than at every threshold: more than 7 days is daily, else more than
\* 6 hours is hourly, else more than 1 hour is minute, else raw; exactly 7
\* days is hourly, exactly 6 hours is minute, exactly 1 hour is raw, and 7
\* days and 1 second is daily.
C1_StrictThresholds ==
    opt_args.called =>
        LET span == opt_args.end_date - opt_args.start_date
        IN  /\ table_name = PhysicalSource[SpecifiedTier(span)]
            /\ span = 604800 => table_name = "data_1h"
            /\ span = 21600 => table_name = "data_1m"
            /\ span = 3600 => table_name = "raw_data"
            /\ span = 604801 => table_name = "data_1d"

C1_Witness ==
    /\ opt_args.called
    /\ opt_args.end_date - opt_args.start_date = 604800
    /\ opt_args.start_date = 1800
    /\ table_name = "data_1h"

\* the parts of C2: one row per key; a run that brings only stored keys leaves
\* storage as it was; a stored row is never changed or removed by a step
C2_OneRowPerKey ==
    /\ \A r \in BagToSet(raw_data) : CopiesIn(r, raw_data) = 1
    /\ \A r, q \in BagToSet(raw_data) : ConflictKey(r) = ConflictKey(q) => r = q
C2_RepeatLeavesStorage ==
    (\A rec \in Range(processed_data) : ConflictKey(RowOf(rec)) \in Keys(raw_at_start))
        => raw_data = raw_at_start
C2_RowsStayAsWritten ==
    \A r \in BagToSet(raw_data) : CopiesIn(r, raw_data') = CopiesIn(r, raw_data)

\* C2: the bulk insert is idempotent on (timestamp, user_id, metric_type):
\* storage never holds two rows with one key, a row once stored stays as
\* first written, and a run all of whose keys were stored before it began
\* leaves storage (and so the row count) as it was.
C2_IdempotentUpsert ==
    /\ [](C2_OneRowPerKey /\ C2_RepeatLeavesStorage)
    /\ [][C2_RowsStayAsWritten]_vars

\* a run committed a record whose key was stored with another value, and the
\* stored row is still the first one
C2_Witness ==
    /\ pc = "done"
    /\ batch_results # <<>>
    /\ \A k \in 1..Len(batch_results) : batch_results[k] = "committed"
    /\ raw_at_start # EmptyBag
    /\ \E rec \in Range(processed_data) :
          /\ ConflictKey(RowOf(rec)) \in Keys(raw_at_start)
          /\ RowOf(rec) \notin BagToSet(raw_data)
    /\ BagCardinality(raw_data) = BagCardinality(raw_at_start)

\* C3: when the insert of a batch fails, only that batch is undone, the error
\* counter grows by one, the batches committed before stay, and the next
\* batch is still attempted.
C3_FailedChunkIsolated ==
    [][(/\ pc = "batches"
        /\ Len(batch_results') = Len(batch_results) + 1
        /\ Last(batch_results') # "committed")
       => /\ raw_data' = raw_data
          /\ total_errors' = total_errors + 1
          /\ (i + batch_size < Len(processed_data) => pc' = "batches")]_vars

NumChunks(n) == (n + batch_size - 1) \div batch_size

\* C4 as claimed: every run writes exactly one provenance row, after every
\* batch was attempted; no run ends with none or with more than one.
C4_ExactlyOneProvenance ==
    /\ pc = "done" => log_written = 1
    /\ log_written > 0 => Len(batch_results) = NumChunks(Len(processed_data))

\* C4 as amended: a run calls log_ingestion at most once and only after every
\* batch was attempted, so it writes at most one provenance row; a run that
\* returns True made that call, and wrote the row unless the call failed; a
\* run that returns False wrote none.
C4_AtMostOneProvenanceAfterAllChunks ==
    /\ log_written <= log_calls /\ log_calls <= 1
    /\ log_calls = 1 =>
          /\ processed_data # <<>>
          /\ Len(batch_results) = NumChunks(Len(processed_data))
          /\ \A k \in 1..Len(batch_results) : batch_results[k] # "raised"
    /\ log_written = 1 =>
          /\ ingestion_log # <<>>
          /\ Last(ingestion_log).records_processed = total_records
          /\ Last(ingestion_log).errors_encountered = total_errors
    /\ pc = "done" => (result = TRUE <=> log_calls = 1)

C4_Witness ==
    /\ pc = "done"
    /\ log_written = 1
    /\ Len(batch_results) = 3
    /\ batch_results[2] = "rolled_back"
    /\ result = TRUE

\* All the records the document's well-formed candidates stand for.
WellFormedRecords(doc) ==
    {c.rec : c \in {d \in Range(DocumentCandidates(doc, 1)) : ~d.raised}}

\* C5: a record that cannot be coerced or lacks a field, or a malformed
\* section, is skipped alone: every well-formed entry after it, in the same
\* modality or another, is still in the returned sequence.
C5_OnlyTheBadOneSkipped ==
    norm_done => WellFormedRecords(document) \subseteq Range(normalized)

\* C6 as claimed: connected and nothing normalised, the run inserts nothing
\* and reports success.
C6_EmptyRunSucceeds ==
    (pc = "done" /\ connect_ok /\ loaded /\ processed_data = <<>>)
        => /\ result = TRUE
           /\ batch_results = <<>>
           /\ raw_data = raw_at_start

\* C6 as amended: connected and nothing normalised, the run inserts nothing,
\* writes no provenance row and reports failure (returns False).
C6_EmptyRunFails ==
    (pc = "done" /\ connect_ok /\ loaded /\ processed_data = <<>>)
        => /\ result = FALSE
           /\ batch_results = <<>>
           /\ raw_data = raw_at_start
           /\ log_calls = 0

C6_Witness ==
    /\ pc = "done" /\ connect_ok /\ loaded
    /\ processed_data = <<>>
    /\ result = FALSE
    /\ raw_data # EmptyBag

\* C7: when connect fails, the run stops before any batch: no insert is
\* issued, storage is as it was, and the run reports failure.
C7_NoConnectionNoWrite ==
    (pc \in {"batches", "log", "finally", "done"} /\ ~connect_ok)
        => /\ pc \in {"finally", "done"}
           /\ batch_results = <<>>
           /\ raw_data = raw_at_start
           /\ log_calls = 0
           /\ ret = FALSE
           /\ pc = "done" => result = FALSE

C7_Witness ==
    /\ pc = "done" /\ ~connect_ok
    /\ runs = 2
    /\ raw_data # EmptyBag
    /\ result = FALSE

PhysicalTables == {PhysicalSource[t] : t \in DOMAIN PhysicalSource}

\* C8: a range with start >= end is rejected with a validation (client-error)
\* outcome and nothing is sent to storage, by the endpoint and by the builder.
C8_EmptyRangeRejected ==
    /\ (/\ response.kind # "none"
        /\ CanStrpTime(request.start_date) /\ CanStrpTime(request.end_date)
        /\ StrpTime[request.start_date] >= StrpTime[request.end_date])
       => (response.status = 400 /\ queries_sent = 0)
    /\ (build_args.called /\ build_args.start_date >= build_args.end_date)
       => built.table_name \notin PhysicalTables

\* C9: a request that finds storage unavailable ends in a service-unavailable
\* outcome, distinct from the validation outcome and from other errors, and
\* never in a successful response.
C9_UnavailableIsItsOwnOutcome ==
    (response.kind # "none" /\ unavailable)
        => /\ response.kind = "error"
           /\ response.status = 503

\* C10: the built query reads from the physical source of the tier the
\* selector gives for (start, end); for raw it selects the stored timestamp,
\* value and metadata, and for every other tier the bucket as timestamp, the
\* bucket mean as value and metadata built from min, max and count.
C10_QueryShapedByTier ==
    build_args.called =>
        LET tier == SpecifiedTier(build_args.end_date - build_args.start_date)
            q == built.query
        IN  /\ q.from = PhysicalSource[tier]
            /\ built.table_name = PhysicalSource[tier]
            /\ built.table_name =
                  get_optimal_table(build_args.start_date, build_args.end_date)
            /\ built.params = <<build_args.user_id, build_args.metric_type,
                                build_args.start_date, build_args.end_date,
                                build_args.limit>>
            /\ tier = "raw" =>
                  /\ q.select_timestamp = "timestamp"
                  /\ q.select_value = "value"
                  /\ q.select_metadata = <<"metadata">>
            /\ tier # "raw" =>
                  /\ q.select_timestamp = "bucket"
                  /\ q.select_value = "avg_value"
                  /\ q.select_metadata =
                        <<"json_build_object", "min", "min_value", "max",
                          "max_value", "count", "count">>
                  /\ "metadata" \notin Range(q.select_metadata)

C10_Witness ==
    /\ build_args.called
    /\ build_args.end_date - build_args.start_date = 21601
    /\ built.table_name = "data_1h"
    /\ built.query.select_value = "avg_value"

RowsWithKey(table, key) == {r \in BagToSet(table) : ConflictKey(r) = key}

\* every batch of the current run was attempted and committed
AllChunksCommitted ==
    /\ Len(batch_results) = NumChunks(Len(processed_data))
    /\ \A k \in 1..Len(batch_results) : batch_results[k] = "committed"

\* the current run reads the document of the run before it, which lost a batch
ReinvokedAfterFailure ==
    /\ prev_run.ran /\ prev_run.loaded /\ prev_run.failed
    /\ loaded /\ structured_data = prev_run.document

\* C11: after a run in which some batches failed, running the same document
\* again from the start with no batch failing leaves exactly one row for every
\* key of the records the document normalises to: the rows the failed batches
\* lost are there, and the rows the first run committed are there once.
C11_ReinvocationRecovers ==
    (/\ pc \in {"log", "finally", "done"}
     /\ ReinvokedAfterFailure
     /\ AllChunksCommitted)
        => /\ \A rec \in Range(processed_data) :
                 /\ Cardinality(RowsWithKey(raw_data, ConflictKey(RowOf(rec)))) = 1
                 /\ \A r \in RowsWithKey(raw_data, ConflictKey(RowOf(rec))) :
                       CopiesIn(r, raw_data) = 1
           /\ \A r \in BagToSet(raw_at_start) :
                 CopiesIn(r, raw_data) = CopiesIn(r, raw_at_start)
           /\ BagCardinality(raw_data) =
                 Cardinality(Keys(raw_at_start)
                             \cup {ConflictKey(RowOf(rec)) : rec \in Range(processed_data)})

\* the first run committed some batches and lost others; the second brought
\* the missing rows
C11_Witness ==
    /\ pc = "done"
    /\ ReinvokedAfterFailure
    /\ AllChunksCommitted
    /\ Len(batch_results) >= 2
    /\ raw_at_start # EmptyBag
    /\ BagCardinality(raw_data) > BagCardinality(raw_at_start)
    /\ \E rec \in Range(processed_data) :
          ConflictKey(RowOf(rec)) \in Keys(raw_at_start)

T == "2024-01-01 08:00:00"

\* a document whose only content is one heart-rate intraday entry
OneEntryDocument ==
    [NoSections EXCEPT !.heart_rate =
        List(<<[timestamp |-> T, participant_id |-> "U1",
                metric_type |-> "heart_rate", value |-> "72"]>>)]

CanonicalRecord(source) ==
    [timestamp |-> T, user_id |-> "U1", metric_type |-> "heart_rate",
     value |-> 72,
     metadata |-> [resolution |-> "1_second", priority |-> "high",
                   source |-> source]]

\* C12 as stated: the one-entry document is normalised to exactly one record
\* with timestamp T, user "U1", metric type "heart_rate", value 72.0 and
\* metadata {resolution "1_second", priority "high", source "clinical_trial"}.
C12_SourceClinicalTrial ==
    (norm_done /\ document = OneEntryDocument)
        => normalized = <<CanonicalRecord("clinical_trial")>>

\* C12 amended: the one-entry document is normalised to exactly one record
\* with timestamp T, user "U1", metric type "heart_rate", value 72.0 and
\* metadata {resolution "1_second", priority "high",
\* source "wearipedia_clinical_trial"}.
C12_OneCanonicalRecord ==
    (norm_done /\ document = OneEntryDocument)
        => normalized = <<CanonicalRecord("wearipedia_clinical_trial")>>

C12_Witness ==
    /\ norm_done
    /\ document = OneEntryDocument
    /\ Len(normalized) = 1
    /\ normalized[1].value = 72

\* the number of records of the k-th batch of the current run
ChunkSize(k) == Min(batch_size, Len(processed_data) - (k - 1) * batch_size)

ChunksWith(outcome) ==
    {k \in 1..Len(batch_results) : batch_results[k] = outcome}

RECURSIVE SizesOf(_)
SizesOf(ks) ==
    IF ks = {} THEN 0
    ELSE LET k == CHOOSE x \in ks : TRUE
         IN  ChunkSize(k) + SizesOf(ks \ {k})

\* C13: in a run that reached the provenance write every batch is accounted
\* for once: errors_encountered is the number of batches whose upsert failed,
\* records_processed is the sum of the sizes of the batches that committed,
\* records_processed plus the records of the failed batches is the number of
\* records normalisation produced, the row written carries these counters, and
\* the run returns success even when errors_encountered > 0.
C13_CountersAccountForEveryChunk ==
    log_calls = 1
        => /\ Len(batch_results) = NumChunks(Len(processed_data))
           /\ ChunksWith("committed") \cup ChunksWith("rolled_back")
                 = 1..Len(batch_results)
           /\ total_errors = Cardinality(ChunksWith("rolled_back"))
           /\ total_records = SizesOf(ChunksWith("committed"))
           /\ total_records + SizesOf(ChunksWith("rolled_back"))
                 = Len(processed_data)
           /\ log_written = 1
                 => /\ Last(ingestion_log).records_processed = total_records
                    /\ Last(ingestion_log).errors_encountered = total_errors
           /\ ret = TRUE
           /\ pc = "done" => result = TRUE

\* a finished run that wrote its provenance row with a failed batch and two
\* committed ones, and returned success
C13_Witness ==
    /\ pc = "done"
    /\ log_calls = 1
    /\ log_written = 1
    /\ Last(ingestion_log).errors_encountered = 1
    /\ Cardinality(ChunksWith("committed")) = 2
    /\ result = TRUE

====
